---- MODULE Spec2Model ----
(***************************************************************************)
(* Joint dual-stream beam search of E2EDualDecoder                         *)
(* (espnet/nets/pytorch_backend/e2e_st_transformer_dual.py):               *)
(* model construction (wait-k assertions) and recognize_and_translate_sum. *)
(*                                                                         *)
(* Ratios given by the caller (max/min length ratios, diversity ratios)    *)
(* are decimal literals, written in tenths: the value 5 stands for 0.5.    *)
(* The two minimum-length ratios are changed by the program (- 0.1 in      *)
(* binary floating point), so the running attempt holds them as the        *)
(* doubles they are: 0.3 - 0.1 is 0.19999999999999998, and int() of its    *)
(* product with 5 is 0, not 1.                                             *)
(* Log-probabilities are small negative integers.  The vocabulary holds   *)
(* one ordinary token and the end marker (sos = eos = odim - 1).  The      *)
(* call is made with a vocabulary list (char_list), so the best            *)
(* hypothesis of every step is logged.  The step-decoder and end_detect    *)
(* are outside the file: any answer is possible.                           *)
(*                                                                         *)
(* Pre-initialisation from trained models: load_trained_modules            *)
(* (espnet/asr/pytorch_backend/asr_init.py), with parameters reduced to    *)
(* their shapes.                                                           *)
(***************************************************************************)
EXTENDS Integers, Sequences, FiniteSets, TLC

\* ---------------------------------------------------------------- bounds
MaxT == 2
MaxBeam == 2
MaxNbest == 2
MaxWaitK == 2
MaxDepth == 2
MaxSpanBeam == 5

\* ------------------------------------------------------ program constants
Odim == 2
sos == Odim - 1
eos == Odim - 1
Vocab == 0 .. (Odim - 1)
LogProbs == {0 - 2, 0 - 1}
Dists == [Vocab -> LogProbs]
NoTok == 0 - 1
\* a distribution variable that holds None, and one that was never assigned
NoneVal == << >>
Unset == [n \in {NoTok} |-> 0]

VARIABLES
    wait_k_asr, wait_k_st,          \* self.wait_k_asr, self.wait_k_st
    hlen,                           \* h.size(0), length of the encoder output
    y, y_asr,                       \* start markers of the two streams
    topk_tie,                       \* tie order of torch.topk in this build
    cross_kwargs,                   \* DualDecoder.__init__ takes the cross_* keywords:
                                    \* not so in transformer/decoder_dual.py as it stands
    caller,                         \* arguments of the top-level decode call
    trans_args,                     \* Namespace of the running attempt
    ratio_diverse_st, ratio_diverse_asr,
    pc, err,
    i, idx,
    hyps, hyps_best_kept, ended_hyps, nbest_hyps,
    ylist, ylist_asr,               \* contents of the two initial list objects
    local_att_scores, local_att_scores_asr,
    ys_mask, ys_mask_asr,           \* side length of the self-masks last built
    cross_mask, cross_mask_asr,     \* wait_k_cross the cross masks were last built with
    queried,                        \* was forward_one_step called for the last hypothesis
    depth,                          \* number of fallback re-decodes so far (saturating)
    ended_early,                    \* the loop was left through the end-detection break
    memo, record,                   \* deterministic decoder and end_detect: answers so far
    ncall, first_result,            \* second call on the same inputs
    span,                           \* inputs and results of the span computation
    main_model,                     \* load_trained_modules: key -> shape of the new model
    main_state_dict,                \* key -> shape and origin of the value
    jobs,                           \* the (model_path, modules) pairs and the files behind them
    it,                             \* position in the loop over the pairs
    modules, dual_modules, partial_state_dict,
    lpc, lerr

vars == << wait_k_asr, wait_k_st, hlen, y, y_asr, topk_tie, cross_kwargs, caller, trans_args,
           ratio_diverse_st, ratio_diverse_asr, pc, err, i, idx,
           hyps, hyps_best_kept, ended_hyps, nbest_hyps, ylist, ylist_asr,
           local_att_scores, local_att_scores_asr, ys_mask, ys_mask_asr,
           cross_mask, cross_mask_asr, queried, depth, ended_early, memo, record,
           ncall, first_result, span,
           main_model, main_state_dict, jobs, it, modules, dual_modules,
           partial_state_dict, lpc, lerr >>

loadVars == << main_model, main_state_dict, jobs, it, modules, dual_modules,
               partial_state_dict, lpc, lerr >>

modelVars == << wait_k_asr, wait_k_st, hlen, y, y_asr, topk_tie, cross_kwargs, record, span,
               loadVars >>

\* ------------------------------------------------------------ helpers
Max2(a, b) == IF a >= b THEN a ELSE b
Min2(a, b) == IF a <= b THEN a ELSE b
Last(s) == s[Len(s)]

\* A double x with 0 <= x < 8 is the integer x * 2^56, held in two limbs of
\* 28 bits: x * 2^56 = hi * Limb + lo.  Every double of that range that the
\* program computes is a multiple of 2^-56.
Limb == 268435456
FloatZero == [hi |-> 0, lo |-> 0]

\* the double nearest to the decimal literal t / 10
FloatOfTenths(t) ==
    CASE t = 0 -> FloatZero
      [] t = 1 -> [hi |-> 26843545, lo |-> 161061274]
      [] t = 2 -> [hi |-> 53687091, lo |-> 53687092]
      [] t = 3 -> [hi |-> 80530636, lo |-> 214748364]
      [] t = 4 -> [hi |-> 107374182, lo |-> 107374184]
      [] t = 5 -> [hi |-> 134217728, lo |-> 0]
      [] t = 6 -> [hi |-> 161061273, lo |-> 161061272]
      [] t = 7 -> [hi |-> 187904819, lo |-> 53687088]
      [] t = 8 -> [hi |-> 214748364, lo |-> 214748368]
      [] t = 9 -> [hi |-> 241591910, lo |-> 107374184]
      [] t = 10 -> [hi |-> Limb, lo |-> 0]

\* the spacing of the doubles around a value, in units of 2^-56: 53
\* significant bits
Ulp(hi) ==
    IF hi >= 4 * Limb THEN 64
    ELSE IF hi >= 2 * Limb THEN 32
    ELSE IF hi >= Limb THEN 16
    ELSE IF hi >= Limb \div 2 THEN 8
    ELSE IF hi >= Limb \div 4 THEN 4
    ELSE IF hi >= Limb \div 8 THEN 2
    ELSE 1

\* round an exact result to the nearest double, ties to even
FRound(x) ==
    LET u == Ulp(x.hi)
        q == x.lo \div u
        r == x.lo % u
        up == 2 * r > u \/ (2 * r = u /\ q % 2 = 1)
        lo2 == (IF up THEN q + 1 ELSE q) * u
    IN  IF lo2 = Limb THEN [hi |-> x.hi + 1, lo |-> 0] ELSE [hi |-> x.hi, lo |-> lo2]

FLess(a, b) == a.hi < b.hi \/ (a.hi = b.hi /\ a.lo < b.lo)

\* the exact difference a - b, for a >= b
FMinus(a, b) ==
    IF a.lo >= b.lo THEN [hi |-> a.hi - b.hi, lo |-> a.lo - b.lo]
    ELSE [hi |-> a.hi - b.hi - 1, lo |-> a.lo - b.lo + Limb]

\* the exact product with an integer 0 <= n <= 7
FTimes(x, n) ==
    [hi |-> x.hi * n + (x.lo * n) \div Limb, lo |-> (x.lo * n) % Limb]

\* int(x * n) for a double x and an integer n
IntOfProduct(x, n) == FRound(FTimes(x, n)).hi \div Limb

\* int(ratio * n) for a ratio given as a decimal literal, in tenths
IntRatio(tenths, n) == IntOfProduct(FloatOfTenths(tenths), n)

\* a retry that leaves the ratio as it is
RelaxNotAtAll(x) == x

\* max(0.0, ratio - 0.1)
Relax(x) ==
    IF FLess(x, FloatOfTenths(1)) THEN FloatZero
    ELSE FRound(FMinus(x, FloatOfTenths(1)))

\* the slice that cuts nothing
PySliceAll(s, n) == s

\* seq[:n] of Python, n possibly negative
PySlice(s, n) ==
    IF n >= 0 THEN SubSeq(s, 1, Min2(n, Len(s)))
    ELSE SubSeq(s, 1, Max2(0, Len(s) + n))

\* the token list a hypothesis refers to: the initial list object when the
\* stream was only ever carried, its own list otherwise
Deref(h, yl) == IF h.sh THEN yl ELSE h.yseq
DerefAsr(h, yl) == IF h.sh_asr THEN yl ELSE h.yseq_asr
YSeq(h) == Deref(h, ylist)
YSeqAsr(h) == DerefAsr(h, ylist_asr)

\* sorted(hs, key=score, reverse=True): Python's sort is stable
InsertBeforeEquals(t, x) ==
    LET p == Cardinality({k \in 1 .. Len(t) : t[k].score > x.score})
    IN SubSeq(t, 1, p) \o << x >> \o SubSeq(t, p + 1, Len(t))
InsertStable(t, x) ==
    LET p == Cardinality({k \in 1 .. Len(t) : t[k].score >= x.score})
    IN SubSeq(t, 1, p) \o << x >> \o SubSeq(t, p + 1, Len(t))

RECURSIVE SortDesc(_)
SortDesc(s) ==
    IF s = << >> THEN << >>
    ELSE InsertStable(SortDesc(SubSeq(s, 1, Len(s) - 1)), Last(s))

\* torch.topk over the flat values vs (indices 1..Len(vs)): among equal
\* values the order is fixed by the build, not by the documentation
BetterReversed(vs, a, b) ==
    \/ vs[a] < vs[b]
    \/ vs[a] = vs[b] /\ (IF topk_tie = "lo" THEN a < b ELSE a > b)
Better(vs, a, b) ==
    \/ vs[a] > vs[b]
    \/ vs[a] = vs[b] /\ (IF topk_tie = "lo" THEN a < b ELSE a > b)

BestOf(vs, S) == CHOOSE a \in S : \A b \in S \ {a} : Better(vs, a, b)

RECURSIVE TopKIdx(_, _, _)
TopKIdx(vs, S, k) ==
    IF k = 0 THEN << >>
    ELSE LET a == BestOf(vs, S)
         IN << a >> \o TopKIdx(vs, S \ {a}, k - 1)

\* local_att_scores.topk(beam): the k best tokens of a distribution
DistSeq(d) == [n \in 1 .. Odim |-> d[n - 1]]
TopKTok(d, k) ==
    LET sel == TopKIdx(DistSeq(d), 1 .. Odim, k)
    IN [n \in 1 .. k |-> sel[n] - 1]

\* maxlen / minlen of the running attempt
MaxLenOf(ratio) == IF ratio = 0 THEN hlen ELSE Max2(1, IntRatio(ratio, hlen))
maxlen == MaxLenOf(trans_args.maxlenratio)
maxlen_asr == MaxLenOf(trans_args.maxlenratio_asr)
NumSteps == Max2(maxlen, maxlen_asr)
minlen == IntOfProduct(trans_args.minlenratio, hlen)
minlen_asr == IntOfProduct(trans_args.minlenratio_asr, hlen)

\* the mask of a stream that ignores the lag
MaskLenNoLag(wk) == i + 1

\* subsequent_mask(n) requested for a stream whose partner has lag wk
MaskLen(wk) ==
    IF wk > 0 THEN (IF i < wk THEN 1 ELSE i - wk + 1) ELSE i + 1

\* ---------------------------------------------- candidate selection
\* the complement taken the wrong way round: int(ratio * beam)
SpanOfWrong(ratio, beam) == (ratio * beam) \div 10

\* int((1 - ratio) * beam): the retained span ct (or cr), the ratio in
\* tenths.  In binary floating point 1 - 0.8 and 1 - 0.9 lie just below 0.2
\* and 0.1, so a product that would be whole truncates one lower.
SpanOf(ratio, beam) ==
    LET exact == ((10 - ratio) * beam) \div 10
    IN  IF ratio \in {8, 9} /\ beam > 0 /\ ((10 - ratio) * beam) % 10 = 0
        THEN exact - 1 ELSE exact

\* the single-stream restrictions applied to the other axis of S
RestrictionSwapped(beam) ==
    LET ct == SpanOf(ratio_diverse_st, beam)
        cr == SpanOf(ratio_diverse_asr, beam)
    IN  IF ratio_diverse_st <= 0 /\ ratio_diverse_asr <= 0
            THEN [err |-> "", nr |-> beam, nc |-> beam]
        ELSE IF ratio_diverse_st > 0 /\ ratio_diverse_asr <= 0
            THEN [err |-> "", nr |-> Min2(ct, beam), nc |-> beam]
        ELSE IF ratio_diverse_asr > 0 /\ ratio_diverse_st <= 0
            THEN [err |-> "", nr |-> beam, nc |-> Min2(cr, beam)]
        ELSE IF cr = 0
            THEN [err |-> "ZeroDivisionError", nr |-> 0, nc |-> 0]
        ELSE [err |-> "", nr |-> Min2(cr, beam),
              nc |-> Min2(Max2(ct, beam \div cr), beam)]

\* rows (ST candidates) and columns (ASR candidates) of S kept before the
\* top-k selection, one branch per diversity setting
Restriction(beam) ==
    LET ct == SpanOf(ratio_diverse_st, beam)
        cr == SpanOf(ratio_diverse_asr, beam)
    IN  IF ratio_diverse_st <= 0 /\ ratio_diverse_asr <= 0
            THEN [err |-> "", nr |-> beam, nc |-> beam]
        ELSE IF ratio_diverse_st > 0 /\ ratio_diverse_asr <= 0
            THEN [err |-> "", nr |-> beam, nc |-> Min2(ct, beam)]
        ELSE IF ratio_diverse_asr > 0 /\ ratio_diverse_st <= 0
            THEN [err |-> "", nr |-> Min2(cr, beam), nc |-> beam]
        ELSE IF cr = 0
            THEN [err |-> "ZeroDivisionError", nr |-> 0, nc |-> 0]
        ELSE [err |-> "", nr |-> Min2(cr, beam),
              nc |-> Min2(Max2(ct, beam \div cr), beam)]

\* the flat index of the restricted matrix read with the stride of the
\* full beam x beam matrix
JointSelectFullStride(d, da, beam) ==
    IF beam < 0 \/ beam > Odim THEN [err |-> "RuntimeError", cands |-> << >>]
    ELSE IF beam = 0 /\ ratio_diverse_st <= 0 /\ ratio_diverse_asr <= 0
        THEN [err |-> "IndexError", cands |-> << >>]
    ELSE
    LET ixk == TopKTok(d, beam)
        iyk == TopKTok(da, beam)
        R == Restriction(beam)
        n == R.nr * R.nc
        RowOf(f) == ((f - 1) \div beam) + 1
        ColOf(f) == ((f - 1) % beam) + 1
        vals == [f \in 1 .. n |-> d[ixk[RowOf(f)]] + da[iyk[ColOf(f)]]]
        sel == TopKIdx(vals, 1 .. n, beam)
    IN  IF R.err # "" THEN [err |-> R.err, cands |-> << >>]
        ELSE IF beam > n THEN [err |-> "RuntimeError", cands |-> << >>]
        ELSE [err |-> "",
              cands |-> [j \in 1 .. beam |->
                            [score |-> vals[sel[j]],
                             st |-> ixk[RowOf(sel[j])],
                             asr |-> iyk[ColOf(sel[j])]]]]

\* both distributions present: S[a,b] = xk[a] + yk[b], flattened row-major
\* over the kept sub-matrix, then topk(beam); s2v maps a flat index back to
\* the token pair
\* (with beam 0 s2v is an empty one-dimensional tensor: without a diversity
\* ratio I[:,0] of line 585 is an IndexError, with one the reshape of s2v
\* makes the same index legal)
JointSelect(d, da, beam) ==
    IF beam < 0 \/ beam > Odim THEN [err |-> "RuntimeError", cands |-> << >>]
    ELSE IF beam = 0 /\ ratio_diverse_st <= 0 /\ ratio_diverse_asr <= 0
        THEN [err |-> "IndexError", cands |-> << >>]
    ELSE
    LET ixk == TopKTok(d, beam)
        iyk == TopKTok(da, beam)
        R == Restriction(beam)
        n == R.nr * R.nc
        RowOf(f) == ((f - 1) \div R.nc) + 1
        ColOf(f) == ((f - 1) % R.nc) + 1
        vals == [f \in 1 .. n |-> d[ixk[RowOf(f)]] + da[iyk[ColOf(f)]]]
        sel == TopKIdx(vals, 1 .. n, beam)
    IN  IF R.err # "" THEN [err |-> R.err, cands |-> << >>]
        ELSE IF beam > n THEN [err |-> "RuntimeError", cands |-> << >>]
        ELSE [err |-> "",
              cands |-> [j \in 1 .. beam |->
                            [score |-> vals[sel[j]],
                             st |-> ixk[RowOf(sel[j])],
                             asr |-> iyk[ColOf(sel[j])]]]]

\* only one distribution present: plain topk(beam) of it
SingleSelect(d, beam, isSt) ==
    IF beam < 0 \/ beam > Odim THEN [err |-> "RuntimeError", cands |-> << >>]
    ELSE LET ik == TopKTok(d, beam)
         IN [err |-> "",
             cands |-> [j \in 1 .. beam |->
                           [score |-> d[ik[j]],
                            st |-> IF isSt THEN ik[j] ELSE NoTok,
                            asr |-> IF isSt THEN NoTok ELSE ik[j]]]]

Select(las, las_asr, beam) ==
    IF las # NoneVal /\ las_asr # NoneVal THEN JointSelect(las, las_asr, beam)
    ELSE IF las # NoneVal THEN SingleSelect(las, beam, TRUE)
    ELSE IF las_asr # NoneVal THEN SingleSelect(las_asr, beam, FALSE)
    ELSE [err |-> "NotImplementedError", cands |-> << >>]

\* the distributions used for a hypothesis after the suppression tests
SuppressSt(h, raw) ==
    IF (Last(YSeq(h)) = eos /\ i > 2) \/ i < wait_k_asr THEN NoneVal ELSE raw
SuppressAsr(h, raw) ==
    IF (Last(YSeqAsr(h)) = eos /\ i > 2) \/ i < wait_k_st THEN NoneVal ELSE raw

\* a new hypothesis whose suppressed stream always receives eos
NewHypNoCarry(h, c, las, las_asr) ==
    [score |-> h.score + c.score,
     yseq |-> IF las # NoneVal THEN Append(YSeq(h), c.st)
              ELSE Append(YSeq(h), eos),
     sh |-> FALSE,
     yseq_asr |-> IF las_asr # NoneVal THEN Append(YSeqAsr(h), c.asr)
                  ELSE Append(YSeqAsr(h), eos),
     sh_asr |-> FALSE,
     lp_st |-> h.lp_st + (IF las # NoneVal THEN las[c.st] ELSE 0),
     lp_asr |-> h.lp_asr + (IF las_asr # NoneVal THEN las_asr[c.asr] ELSE 0)]

\* one new hypothesis from parent h and selected candidate c
NewHyp(h, c, las, las_asr) ==
    [score |-> h.score + c.score,
     yseq |-> IF las # NoneVal THEN Append(YSeq(h), c.st)
              ELSE IF i >= wait_k_asr THEN Append(YSeq(h), eos)
              ELSE h.yseq,
     sh |-> IF las = NoneVal /\ i < wait_k_asr THEN h.sh ELSE FALSE,
     yseq_asr |-> IF las_asr # NoneVal THEN Append(YSeqAsr(h), c.asr)
                  ELSE IF i >= wait_k_st THEN Append(YSeqAsr(h), eos)
                  ELSE h.yseq_asr,
     sh_asr |-> IF las_asr = NoneVal /\ i < wait_k_st THEN h.sh_asr ELSE FALSE,
     lp_st |-> h.lp_st + (IF las # NoneVal THEN las[c.st] ELSE 0),
     lp_asr |-> h.lp_asr + (IF las_asr # NoneVal THEN las_asr[c.asr] ELSE 0)]

\* append each new hypothesis, sort and cut to beam after every insertion
RECURSIVE InsertAll(_, _, _, _, _, _, _)
InsertAll(kept, h, cands, las, las_asr, beam, j) ==
    IF j > beam THEN kept
    ELSE InsertAll(
            PySlice(SortDesc(Append(kept, NewHyp(h, cands[j], las, las_asr))), beam),
            h, cands, las, las_asr, beam, j + 1)

InitHyp ==
    [score |-> 0, yseq |-> << >>, sh |-> TRUE, yseq_asr |-> << >>, sh_asr |-> TRUE,
     lp_st |-> 0, lp_asr |-> 0]

\* ------------------------------------------------------------ actions
\* E2EDualDecoder.__init__: the wait-k assertions
\* the assertions without the check of the elif branch
WaitKValidLoose ==
    IF wait_k_asr > 0 THEN wait_k_st = 0
    ELSE IF wait_k_st > 0 THEN TRUE
    ELSE wait_k_asr = 0 /\ wait_k_st = 0

WaitKValid ==
    IF wait_k_asr > 0 THEN wait_k_st = 0
    ELSE IF wait_k_st > 0 THEN wait_k_asr = 0
    ELSE wait_k_asr = 0 /\ wait_k_st = 0

runVars == << trans_args, ratio_diverse_st, ratio_diverse_asr, i, idx, hyps,
              hyps_best_kept, ended_hyps, nbest_hyps, ylist, ylist_asr,
              local_att_scores, local_att_scores_asr, ys_mask, ys_mask_asr,
              cross_mask, cross_mask_asr, queried, depth, ended_early, memo, ncall, first_result >>

\* then the DualDecoder of line 198, called with the cross_* keywords
Construct ==
    /\ pc = "new"
    /\ pc' = IF WaitKValid /\ cross_kwargs THEN "built" ELSE "error"
    /\ err' = IF ~WaitKValid THEN "AssertionError"
              ELSE IF ~cross_kwargs THEN "TypeError"
              ELSE err
    /\ UNCHANGED << modelVars, caller, runVars >>

\* lines 469-526 of one attempt: fresh locals, one initial hypothesis
StartAttempt ==
    /\ i' = 0
    /\ idx' = 1
    /\ hyps' = << InitHyp >>
    /\ hyps_best_kept' = << >>
    /\ ended_hyps' = << >>
    /\ nbest_hyps' = << >>
    /\ ylist' = << y >>
    /\ ylist_asr' = << y_asr >>
    /\ local_att_scores' = Unset
    /\ local_att_scores_asr' = Unset
    /\ ys_mask' = 0
    /\ ys_mask_asr' = 0
    /\ cross_mask' = << >>
    /\ cross_mask_asr' = << >>
    /\ queried' = FALSE
    /\ ended_early' = FALSE
    /\ pc' = "expand"

\* top-level call of recognize_and_translate_sum
Decode ==
    /\ pc = "built"
    /\ trans_args' = caller.trans_args
    /\ ratio_diverse_st' = caller.ratio_diverse_st
    /\ ratio_diverse_asr' = caller.ratio_diverse_asr
    /\ depth' = 0
    /\ ncall' = 1
    /\ StartAttempt
    /\ UNCHANGED << modelVars, caller, err, memo, first_result >>

\* wait_k_cross given to create_cross_mask for the ST-attends-ASR mask (st)
\* and the ASR-attends-ST mask (asr): in the training forward pass
TrainCrossLags ==
    IF wait_k_asr > 0 THEN [st |-> wait_k_asr, asr |-> 0 - wait_k_asr]
    ELSE IF wait_k_st > 0 THEN [st |-> 0 - wait_k_st, asr |-> wait_k_st]
    ELSE [st |-> 0, asr |-> 0]
\* and in a step of the beam search
DecodeCrossLags == [st |-> wait_k_asr, asr |-> wait_k_st]

\* the step-decoder (DualDecoder.forward_one_step): any pair of
\* distributions; the same answer to the same query when it is deterministic
QueryKey(h, m, m_asr) == << YSeq(h), YSeqAsr(h), m, m_asr >>
Answers(h, m, m_asr) ==
    IF record /\ QueryKey(h, m, m_asr) \in DOMAIN memo.dec
    THEN {memo.dec[QueryKey(h, m, m_asr)]}
    ELSE [st : Dists, asr : Dists]

\* lines 534-670: the body of the loop over the hypotheses of the beam
Expand ==
    /\ pc = "expand"
    /\ idx <= Len(hyps)
    /\ LET h == hyps[idx]
           beam == trans_args.beam_size
           m == MaskLen(wait_k_asr)
           m_asr == MaskLen(wait_k_st)
           call == Last(YSeq(h)) # eos \/ Last(YSeqAsr(h)) # eos \/ i < 2
       IN \E ans \in (IF call THEN Answers(h, m, m_asr)
                      ELSE {[st |-> local_att_scores, asr |-> local_att_scores_asr]}) :
            LET las == SuppressSt(h, ans.st)
                las_asr == SuppressAsr(h, ans.asr)
                unbound == las = Unset \/ las_asr = Unset
                sel == IF unbound THEN [err |-> "UnboundLocalError", cands |-> << >>]
                       ELSE Select(las, las_asr, beam)
            IN  /\ ys_mask' = m
                /\ ys_mask_asr' = m_asr
                /\ cross_mask' = IF call THEN << DecodeCrossLags.st >> ELSE cross_mask
                /\ cross_mask_asr' = IF call THEN << DecodeCrossLags.asr >>
                                     ELSE cross_mask_asr
                /\ queried' = call
                /\ local_att_scores' = las
                /\ local_att_scores_asr' = las_asr
                /\ memo' = IF call /\ record
                           THEN [memo EXCEPT !.dec =
                                    [k \in DOMAIN @ \cup {QueryKey(h, m, m_asr)} |->
                                        IF k \in DOMAIN @ THEN @[k] ELSE ans]]
                           ELSE memo
                /\ IF sel.err # ""
                   THEN /\ pc' = "error"
                        /\ err' = sel.err
                        /\ UNCHANGED << idx, hyps_best_kept >>
                   ELSE /\ hyps_best_kept' =
                              InsertAll(hyps_best_kept, h, sel.cands, las, las_asr, beam, 1)
                        /\ idx' = idx + 1
                        /\ UNCHANGED << pc, err >>
    /\ UNCHANGED << modelVars, caller, trans_args, ratio_diverse_st, ratio_diverse_asr, i,
                    hyps, ended_hyps, nbest_hyps, ylist, ylist_asr, depth,
                    ended_early, ncall, first_result >>

\* end_detect(ended_hyps, i) of espnet.nets.e2e_asr_common: a heuristic over
\* the score trend of the Ended set; it can only fire on a non-empty set
EndDetect(ended) == IF ended = << >> THEN {FALSE} ELSE BOOLEAN
\* end_detect is a function of its arguments: the same answer to the same
\* Ended set and step when the answers are recorded
EndDetectKey(ended) == << ended, i >>
EndDetectAnswers(ended) ==
    IF record /\ EndDetectKey(ended) \in DOMAIN memo.end
    THEN {memo.end[EndDetectKey(ended)]}
    ELSE EndDetect(ended)

\* lines 681-690: append eos in place to every list of the beam that does
\* not end with it; an append to an initial list object is seen by every
\* hypothesis that refers to it
\* the append without the test of the last token
ForceEosListAlways(hs, yl, on) ==
    IF on /\ (\E k \in 1 .. Len(hs) : hs[k].sh) THEN Append(yl, eos) ELSE yl
ForceEosList(hs, yl, on) ==
    IF on /\ (\E k \in 1 .. Len(hs) : hs[k].sh) /\ Last(yl) # eos
    THEN Append(yl, eos) ELSE yl
ForceEosHyps(hs, on) ==
    [k \in 1 .. Len(hs) |->
        IF on /\ ~hs[k].sh /\ Last(hs[k].yseq) # eos
        THEN [hs[k] EXCEPT !.yseq = Append(@, eos)] ELSE hs[k]]
ForceEosListAsr(hs, yl, on) ==
    IF on /\ (\E k \in 1 .. Len(hs) : hs[k].sh_asr) /\ Last(yl) # eos
    THEN Append(yl, eos) ELSE yl
ForceEosHypsAsr(hs, on) ==
    [k \in 1 .. Len(hs) |->
        IF on /\ ~hs[k].sh_asr /\ Last(hs[k].yseq_asr) # eos
        THEN [hs[k] EXCEPT !.yseq_asr = Append(@, eos)] ELSE hs[k]]

\* lines 694-707: the Ended / remaining partition of the pruned beam
BothEos(h, yl, yla) == Last(Deref(h, yl)) = eos /\ Last(DerefAsr(h, yla)) = eos
LongEnoughOrEqual(h, yl, yla) ==
    Len(Deref(h, yl)) >= minlen /\ Len(DerefAsr(h, yla)) >= minlen_asr
LongEnough(h, yl, yla) ==
    Len(Deref(h, yl)) > minlen /\ Len(DerefAsr(h, yla)) > minlen_asr
\* the length bonus counted from 0
PenalisedFromZero(h) == [h EXCEPT !.score = @ + i * trans_args.penalty]
Penalised(h) == [h EXCEPT !.score = @ + (i + 1) * trans_args.penalty]
NewlyEnded(hs, yl, yla) ==
    LET Keep(h) == BothEos(h, yl, yla) /\ LongEnough(h, yl, yla)
        es == SelectSeq(hs, Keep)
    IN [k \in 1 .. Len(es) |-> Penalised(es[k])]
\* line 701 adds the bonus to the dict itself, which is also an element of
\* the pruned beam: the beam list shows the raised score from then on
PenalisedInPlace(hs, yl, yla) ==
    [k \in 1 .. Len(hs) |->
        IF BothEos(hs[k], yl, yla) /\ LongEnough(hs[k], yl, yla)
        THEN Penalised(hs[k]) ELSE hs[k]]
\* a partition that keeps only the hypotheses whose ST stream is open
RemainedStOpen(hs, yl, yla) ==
    LET Keep(h) == Last(Deref(h, yl)) # eos
    IN SelectSeq(hs, Keep)
Remained(hs, yl, yla) ==
    LET Keep(h) == ~BothEos(h, yl, yla)
    IN SelectSeq(hs, Keep)

\* lines 673-726: the rest of one step, after every hypothesis was expanded;
\* the log of hyps[0] (lines 676-678) fails on an empty pruned beam
EndStep ==
    /\ pc = "expand"
    /\ idx > Len(hyps)
    /\ IF hyps_best_kept = << >>
       THEN /\ pc' = "error"
            /\ err' = "IndexError"
            /\ hyps' = hyps_best_kept
            /\ UNCHANGED << i, idx, hyps_best_kept, ended_hyps, ylist, ylist_asr,
                            ended_early, memo >>
       ELSE LET yl == ForceEosList(hyps_best_kept, ylist, i = maxlen - 1)
                hs1 == ForceEosHyps(hyps_best_kept, i = maxlen - 1)
                yla == ForceEosListAsr(hs1, ylist_asr, i = maxlen_asr - 1)
                hs2 == ForceEosHypsAsr(hs1, i = maxlen_asr - 1)
                ended == ended_hyps \o NewlyEnded(hs2, yl, yla)
                remained == Remained(hs2, yl, yla)
                hs3 == PenalisedInPlace(hs2, yl, yla)
            IN \E ed \in EndDetectAnswers(ended) :
                /\ ylist' = yl
                /\ memo' = IF record
                           THEN [memo EXCEPT !.end =
                                    [k \in DOMAIN @ \cup {EndDetectKey(ended)} |->
                                        IF k \in DOMAIN @ THEN @[k] ELSE ed]]
                           ELSE memo
                /\ ylist_asr' = yla
                /\ ended_hyps' = ended
                /\ err' = err
                /\ IF ed /\ trans_args.maxlenratio = 0
                   THEN /\ hyps' = hs3
                        /\ hyps_best_kept' = hs3
                        /\ ended_early' = TRUE
                        /\ pc' = "rank"
                        /\ UNCHANGED << i, idx >>
                   ELSE /\ hyps' = remained
                        /\ ended_early' = FALSE
                        /\ IF remained # << >> /\ i + 1 < NumSteps
                           THEN /\ i' = i + 1
                                /\ idx' = 1
                                /\ hyps_best_kept' = << >>
                                /\ pc' = "expand"
                           ELSE /\ pc' = "rank"
                                /\ hyps_best_kept' = hs3
                                /\ UNCHANGED << i, idx >>
    /\ UNCHANGED << modelVars, caller, trans_args, ratio_diverse_st, ratio_diverse_asr,
                    nbest_hyps, local_att_scores, local_att_scores_asr, ys_mask,
                    ys_mask_asr, cross_mask, cross_mask_asr, queried, depth, ncall,
                    first_result >>

\* defaults of the keyword arguments ratio_diverse_st / ratio_diverse_asr
DefaultRatioDiverse == 0

\* the relaxed Namespace of the fallback re-decode
RelaxedArgs(a) ==
    [a EXCEPT !.minlenratio = Relax(@), !.minlenratio_asr = Relax(@)]

\* without the copy: the caller's Namespace is the one that is relaxed
CallerAfterNoCopy(c, a) == [c EXCEPT !.trans_args = RelaxedArgs(a)]

\* line 735: the Namespace is copied before it is changed, so the object
\* the caller passed in keeps its values
CallerAfter(c, a) == c

\* the cut without the sort
NBestUnsorted(ended, nbest) == PySlice(ended, Min2(Len(ended), nbest))

\* sorted(ended_hyps, ...)[:min(len(ended_hyps), nbest)]
NBest(ended, nbest) == PySlice(SortDesc(ended), Min2(Len(ended), nbest))

\* the re-decode of line 738 is a nested call.  The counter of nested calls
\* stops at MaxDepth, which stands for every deeper nesting as well; the
\* interpreter refuses a call beyond its recursion limit, and a chain that
\* gets there has long stopped changing the ratios
AtRecursionLimit == depth = MaxDepth /\ RelaxedArgs(trans_args) = trans_args

\* lines 728-743: rank the Ended set, return it or re-decode
Finish ==
    /\ pc = "rank"
    /\ LET nb == NBest(ended_hyps, trans_args.nbest)
       IN IF nb = << >>
          THEN \/ /\ trans_args' = RelaxedArgs(trans_args)
                  /\ caller' = CallerAfter(caller, trans_args)
                  /\ ratio_diverse_st' = DefaultRatioDiverse
                  /\ ratio_diverse_asr' = DefaultRatioDiverse
                  /\ depth' = Min2(depth + 1, MaxDepth)
                  /\ StartAttempt
                  /\ err' = err
               \/ /\ AtRecursionLimit
                  /\ pc' = "error"
                  /\ err' = "RecursionError"
                  /\ UNCHANGED << caller, trans_args, ratio_diverse_st,
                                  ratio_diverse_asr, i, idx, hyps, hyps_best_kept,
                                  ended_hyps, nbest_hyps, ylist, ylist_asr,
                                  local_att_scores, local_att_scores_asr, ys_mask,
                                  ys_mask_asr, cross_mask, cross_mask_asr, queried,
                                  depth, ended_early >>
          ELSE /\ nbest_hyps' = nb
               /\ err' = err
               /\ pc' = "returned"
               /\ UNCHANGED << caller, trans_args, ratio_diverse_st, ratio_diverse_asr, i,
                               idx, hyps, hyps_best_kept, ended_hyps, ylist,
                               ylist_asr, local_att_scores, local_att_scores_asr,
                               ys_mask, ys_mask_asr, cross_mask, cross_mask_asr,
                               queried, depth, ended_early >>
    /\ UNCHANGED << modelVars, memo, ncall, first_result >>

\* the step of Finish that ends a chain of re-decodes
RecursionLimit == Finish /\ err' = "RecursionError"

\* the hypotheses as the caller sees them
Resolve(hs, yl, yla) ==
    [k \in 1 .. Len(hs) |->
        [score |-> hs[k].score, yseq |-> Deref(hs[k], yl),
         yseq_asr |-> DerefAsr(hs[k], yla)]]
Result == Resolve(nbest_hyps, ylist, ylist_asr)

\* a second call with the caller's unchanged arguments
SecondCall ==
    /\ pc = "returned"
    /\ ncall = 1
    /\ first_result' = Result
    /\ ncall' = 2
    /\ trans_args' = caller.trans_args
    /\ ratio_diverse_st' = caller.ratio_diverse_st
    /\ ratio_diverse_asr' = caller.ratio_diverse_asr
    /\ depth' = 0
    /\ StartAttempt
    /\ UNCHANGED << modelVars, caller, err, memo >>

\* --------------------------------------------- load_trained_modules
\* (espnet/asr/pytorch_backend/asr_init.py).  Keys and module names are
\* strings; str.startswith and the key rewrites are tables over the names
\* that occur.  A parameter is its shape and where its value comes from.
Shapes == {1, 2}
NoDict == [k \in {} |-> 0]
\* dual_modules = None
NoModules == [none |-> TRUE, mods |-> {}]

EncKey == "encoder.embed.weight"
DecKey == "decoder.embed.weight"
DecAsrKey == "decoder_asr.embed.weight"
DualKey == "dual_decoder.embed.weight"
DualAsrKey == "dual_decoder.embed_asr.weight"
LmEmbedKey == "predictor.embed.weight"
LmRnnKey == "predictor.rnn.0.weight"
AsrEmbedKey == "dec.embed.weight"
AsrRnnKey == "dec.decoder.0.weight"

\* the module names of the model that are proper prefixes of a key
PrefixesOf(key) ==
    CASE key = EncKey -> {"encoder.embed"}
      [] key = DecKey -> {"decoder.embed"}
      [] key = DecAsrKey -> {"decoder_asr.embed"}
      [] key = DualKey -> {"dual_decoder.embed"}
      [] key = DualAsrKey -> {"dual_decoder.embed", "dual_decoder.embed_asr"}
      [] key = LmEmbedKey -> {"predictor.embed."}
      [] key = LmRnnKey -> {"predictor.rnn."}
      [] OTHER -> {}
\* key.startswith(m)
StartsWith(key, m) == m = key \/ m \in PrefixesOf(key)
\* mod.startswith('dual_decoder')
IsDualName(m) == m \in {"dual_decoder.embed", "dual_decoder.embed_asr", DualKey, DualAsrKey}

\* transfer_verification: the shape of every partial key under a module is
\* looked up in the model (KeyError when the model has no such key); true
\* when at least one shape agrees
VerificationKeys(partial, mods) ==
    {k \in DOMAIN partial : \E m \in mods : StartsWith(k, m)}
VerificationRaises(main, partial, mods) ==
    \E k \in VerificationKeys(partial, mods) : k \notin DOMAIN main
transfer_verification(main, partial, mods) ==
    \E k \in VerificationKeys(partial, mods) : partial[k] = main[k].shape

\* get_partial_state_dict
get_partial_state_dict(msd, mods) ==
    [k \in {k \in DOMAIN msd : \E m \in mods : StartsWith(k, m)} |-> msd[k]]

\* the key rewrite of get_partial_state_dict_dual_decoders
DualKeyOf(key) ==
    CASE key = DecKey -> DualKey
      [] key = DecAsrKey -> DualAsrKey
      [] OTHER -> key
get_partial_state_dict_dual_decoders(msd, mods) ==
    LET src == {k \in DOMAIN msd : \E m \in mods : StartsWith(k, m)}
    IN [nk \in {DualKeyOf(k) : k \in src} |->
            msd[CHOOSE k \in src : DualKeyOf(k) = nk]]

\* get_partial_lm_state_dict: the rewritten keys
LmKeyOf(key) == IF key = LmEmbedKey THEN AsrEmbedKey ELSE AsrRnnKey
LmSource(msd, mods) ==
    {k \in DOMAIN msd :
        \/ k = LmEmbedKey /\ "predictor.embed." \in mods
        \/ k = LmRnnKey /\ "predictor.rnn." \in mods}
get_partial_lm_state_dict(msd, mods) ==
    [nk \in {LmKeyOf(k) : k \in LmSource(msd, mods)} |->
        msd[CHOOSE k \in LmSource(msd, mods) : LmKeyOf(k) = nk]]

\* filter_modules
filter_modules(msd, mods) ==
    {m \in mods : \E k \in DOMAIN msd : StartsWith(k, m)}
\* filter_modules_dual_decoders: the names of the pre-trained model
DualSourceName(m) ==
    CASE m = "dual_decoder.embed" -> "decoder.embed"
      [] m = "dual_decoder.embed_asr" -> "decoder_asr.embed"
      [] OTHER -> m
filter_modules_dual_decoders(msd, mods) ==
    {n \in {DualSourceName(m) : m \in mods} : \E k \in DOMAIN msd : StartsWith(k, n)}

\* main_state_dict.update(partial_state_dict)
Update(main, partial) ==
    [k \in DOMAIN main \cup DOMAIN partial |->
        IF k \in DOMAIN partial THEN [shape |-> partial[k], src |-> "pre"] ELSE main[k]]

decodeVars == << wait_k_asr, wait_k_st, hlen, y, y_asr, topk_tie, cross_kwargs, record, span,
                 caller, pc, err, runVars >>

\* one pass of the loop over (enc_init, enc_init_mods), (dec_init, dec_init_mods)
LoadModules ==
    /\ lpc = "loop"
    /\ it <= Len(jobs)
    /\ LET j == jobs[it]
           dual == \A m \in j.modules : IsDualName(m)
           dm == IF dual THEN [none |-> FALSE, mods |-> j.modules] ELSE dual_modules
           mods1 == IF dual THEN filter_modules_dual_decoders(j.state, j.modules)
                    ELSE filter_modules(j.state, j.modules)
           partial == IF j.is_lm THEN get_partial_lm_state_dict(j.state, mods1)
                      ELSE IF dm # NoModules
                           THEN get_partial_state_dict_dual_decoders(j.state, mods1)
                      ELSE get_partial_state_dict(j.state, mods1)
           mods2 == IF j.is_lm \/ dm # NoModules THEN DOMAIN partial ELSE mods1
           verify == ~j.is_lm /\ DOMAIN partial # {}
       IN IF j.path # "file"
          THEN /\ it' = it + 1
               /\ modules' = j.modules
               /\ UNCHANGED << main_state_dict, dual_modules,
                               partial_state_dict, lpc, lerr >>
          ELSE /\ dual_modules' = dm
               /\ modules' = mods2
               /\ partial_state_dict' = partial
               /\ IF verify /\ VerificationRaises(main_state_dict, partial, mods2)
                  THEN /\ lpc' = "error"
                       /\ lerr' = "KeyError"
                       /\ UNCHANGED << it, main_state_dict >>
                  ELSE /\ it' = it + 1
                       /\ main_state_dict' =
                             IF verify /\ transfer_verification(main_state_dict, partial, mods2)
                             THEN Update(main_state_dict, partial)
                             ELSE main_state_dict
                       /\ UNCHANGED << lpc, lerr >>
    /\ UNCHANGED << decodeVars, main_model, jobs >>

\* main_model.load_state_dict(main_state_dict), strict: a key the model
\* does not have or a value of another shape is refused
LoadStateDict ==
    /\ lpc = "loop"
    /\ it > Len(jobs)
    /\ IF \A k \in DOMAIN main_state_dict :
              k \in DOMAIN main_model /\ main_state_dict[k].shape = main_model[k]
       THEN lpc' = "loaded" /\ lerr' = lerr
       ELSE lpc' = "error" /\ lerr' = "RuntimeError"
    /\ UNCHANGED << decodeVars, main_model, main_state_dict, jobs, it, modules,
                    dual_modules, partial_state_dict >>

\* the loader is not running
NoLoad ==
    /\ main_model = NoDict
    /\ main_state_dict = NoDict
    /\ jobs = << >>
    /\ it = 1
    /\ modules = {}
    /\ dual_modules = NoModules
    /\ partial_state_dict = NoDict
    /\ lpc = "idle"
    /\ lerr = ""

\* ------------------------------------------------------- specification
\* a configuration: the model's lags, the utterance, the build and the
\* arguments of the call
Base ==
    [wait_k_asr |-> 0, wait_k_st |-> 0, hlen |-> MaxT, y |-> sos, y_asr |-> sos,
     topk_tie |-> "lo", beam_size |-> 1, penalty |-> 0, nbest |-> 1,
     maxlenratio |-> 0, maxlenratio_asr |-> 0, minlenratio |-> 0,
     minlenratio_asr |-> 0, ratio_diverse_st |-> 0, ratio_diverse_asr |-> 0]

Lags == (0 - 1) .. MaxWaitK

\* every pair of lags, valid or not, on the longest utterance
LagConfigs ==
    {[Base EXCEPT !.hlen = MaxT + 1, !.wait_k_asr = a, !.wait_k_st = s] :
        a \in Lags, s \in Lags}

\* beam width and n-best size, valid or not, with a length bonus large
\* enough to rank a later hypothesis first, and both tie orders
BeamConfigs ==
    {[Base EXCEPT !.beam_size = b, !.nbest = n, !.penalty = 3] :
        b \in 0 .. MaxBeam, n \in 0 .. MaxNbest}
    \cup {[Base EXCEPT !.beam_size = b, !.topk_tie = "hi"] : b \in 1 .. MaxBeam}

\* length ratios: equal and unequal maximum lengths, minimum lengths that
\* filter, with and without a lag
MinRatioPairs == {<< 0, 0 >>, << 5, 5 >>, << 10, 0 >>}
LenConfigs ==
    {[Base EXCEPT !.maxlenratio = mx, !.maxlenratio_asr = mxa,
                  !.minlenratio = mn[1], !.minlenratio_asr = mn[2],
                  !.wait_k_asr = a, !.penalty = 1] :
        mx \in {0, 5}, mxa \in {0, 5}, mn \in MinRatioPairs, a \in {0, 1}}

\* language tokens as start markers (one_to_many with lang_tok decoder-pre)
StartConfigs ==
    {[Base EXCEPT !.y = 0, !.y_asr = 0, !.wait_k_asr = a, !.wait_k_st = s,
                  !.maxlenratio = mx] :
        a \in {0, 1}, s \in {0, 1}, mx \in {0, 5}}

\* diversity ratios of either stream, on a one-frame utterance
DiverseRatios == {0, 3, 5, 6}
DiverseConfigs ==
    {[Base EXCEPT !.hlen = 1, !.beam_size = b, !.nbest = 2,
                  !.ratio_diverse_st = rs, !.ratio_diverse_asr = ra] :
        b \in 1 .. 2, rs \in DiverseRatios, ra \in DiverseRatios}

\* two hypotheses side by side while the ST stream waits: they share the
\* initial ST list; with and without a minimum ASR length
PairConfigs ==
    {[Base EXCEPT !.hlen = 2, !.beam_size = 2, !.nbest = 2, !.wait_k_asr = a,
                  !.maxlenratio = mx, !.maxlenratio_asr = mx,
                  !.minlenratio_asr = mn, !.penalty = 1] :
        a \in {1, 2}, mx \in {0, 5}, mn \in {0, 10}}

\* an utterance of four frames, so that a step past i = 2 happens: the
\* default start markers without a lag and with a lag of three steps, and
\* language tokens with an ST stream that waits through the whole utterance
LongConfigs ==
    {[Base EXCEPT !.hlen = 4, !.y = m[1], !.y_asr = m[1], !.wait_k_asr = m[2]] :
        m \in {<< sos, 0 >>, << sos, 3 >>, << 0, 4 >>}}

\* language tokens as start markers and a stream whose maximum length ends
\* inside its lag window
LateStartConfigs ==
    {[Base EXCEPT !.hlen = 2, !.y = 0, !.y_asr = 0, !.wait_k_asr = 2,
                  !.maxlenratio = 5],
     [Base EXCEPT !.hlen = 2, !.y = 0, !.y_asr = 0, !.wait_k_st = 2,
                  !.maxlenratio_asr = 5]}

\* a minimum-length ratio whose relaxation leaves the decimal grid: 0.3 on
\* five frames asks for one token, 0.3 - 0.1 for none
DriftConfigs ==
    {[Base EXCEPT !.hlen = 5, !.wait_k_asr = 1, !.minlenratio = 3,
                  !.maxlenratio = 2, !.maxlenratio_asr = 2]}

Configs ==
    LagConfigs \cup BeamConfigs \cup LenConfigs \cup StartConfigs \cup DiverseConfigs
        \cup PairConfigs \cup LongConfigs \cup LateStartConfigs \cup DriftConfigs

InitRun ==
    /\ trans_args = caller.trans_args
    /\ ratio_diverse_st = caller.ratio_diverse_st
    /\ ratio_diverse_asr = caller.ratio_diverse_asr
    /\ pc = "new"
    /\ err = ""
    /\ i = 0
    /\ idx = 1
    /\ hyps = << >>
    /\ hyps_best_kept = << >>
    /\ ended_hyps = << >>
    /\ nbest_hyps = << >>
    /\ ylist = << >>
    /\ ylist_asr = << >>
    /\ local_att_scores = Unset
    /\ local_att_scores_asr = Unset
    /\ ys_mask = 0
    /\ ys_mask_asr = 0
    /\ cross_mask = << >>
    /\ cross_mask_asr = << >>
    /\ queried = FALSE
    /\ depth = 0
    /\ ended_early = FALSE
    /\ memo = [dec |-> << >>, end |-> << >>]
    /\ ncall = 0
    /\ first_result = << >>

InitOf(c) ==
    /\ wait_k_asr = c.wait_k_asr
    /\ wait_k_st = c.wait_k_st
    /\ hlen = c.hlen
    /\ y = c.y
    /\ y_asr = c.y_asr
    /\ topk_tie = c.topk_tie
    /\ caller = [trans_args |->
                    [beam_size |-> c.beam_size, penalty |-> c.penalty,
                     nbest |-> c.nbest, maxlenratio |-> c.maxlenratio,
                     maxlenratio_asr |-> c.maxlenratio_asr,
                     minlenratio |-> FloatOfTenths(c.minlenratio),
                     minlenratio_asr |-> FloatOfTenths(c.minlenratio_asr)],
                 ratio_diverse_st |-> c.ratio_diverse_st,
                 ratio_diverse_asr |-> c.ratio_diverse_asr]
    /\ InitRun

NoSpan == [beam |-> 0, r1 |-> 0, r2 |-> 0, ct1 |-> 0, ct2 |-> 0, done |-> FALSE]

Init ==
    /\ record = FALSE
    /\ span = NoSpan
    /\ NoLoad
    /\ cross_kwargs \in BOOLEAN
    /\ \E c \in Configs : InitOf(c)

Next == Construct \/ Decode \/ Expand \/ EndStep \/ Finish

Spec == Init /\ [][Next]_vars

\* ------------------------------------------------------------- claims
Running == pc \in {"expand", "rank", "returned"}

\* C1: whenever the decode call has returned with beam_size >= 1 and
\* n_best >= 1, the returned list holds at most n_best hypotheses and its
\* scores are non-increasing.
C1_NBestRanked ==
    (pc = "returned" /\ trans_args.beam_size >= 1 /\ trans_args.nbest >= 1) =>
        /\ Len(nbest_hyps) <= trans_args.nbest
        /\ \A k \in 1 .. (Len(nbest_hyps) - 1) :
              nbest_hyps[k].score >= nbest_hyps[k + 1].score

\* a return where the Ended set was longer than n_best and not yet in order
C1_Witness ==
    /\ pc = "returned"
    /\ trans_args.beam_size >= 1
    /\ trans_args.nbest >= 1
    /\ Len(ended_hyps) > trans_args.nbest
    /\ \E k \in 1 .. (Len(ended_hyps) - 1) :
          ended_hyps[k].score < ended_hyps[k + 1].score

\* C2: in every state of an attempt, every hypothesis of the Ended set, and
\* every returned one, ends with eos in both streams and is longer than the
\* minimum lengths of the attempt that produced it.
EndedOK(h) ==
    /\ Last(YSeq(h)) = eos
    /\ Last(YSeqAsr(h)) = eos
    /\ Len(YSeq(h)) > minlen
    /\ Len(YSeqAsr(h)) > minlen_asr
C2_EndedWellFormed ==
    Running =>
        /\ \A k \in 1 .. Len(ended_hyps) : EndedOK(ended_hyps[k])
        /\ \A k \in 1 .. Len(nbest_hyps) : EndedOK(nbest_hyps[k])

\* a hypothesis returned by a re-decode whose minimum length still filters
C2_Witness ==
    /\ pc = "returned"
    /\ depth >= 1
    /\ minlen >= 1
    /\ nbest_hyps # << >>

\* C6: construction fails when both lags are positive or one is negative,
\* so whenever a decode runs both lags are >= 0 and at most one is nonzero.
LagsOK == wait_k_asr >= 0 /\ wait_k_st >= 0 /\ (wait_k_asr = 0 \/ wait_k_st = 0)
C6_LagsExclusive ==
    pc # "new" =>
        /\ ~LagsOK => (pc = "error" /\ err = "AssertionError")
        /\ Running => LagsOK

\* construction refused with both lags positive
C6_Witness ==
    /\ pc = "error"
    /\ err = "AssertionError"
    /\ wait_k_asr > 0
    /\ wait_k_st > 0

\* C9: with wait_k_asr = k > 0 the ST self-mask built at step i has side 1
\* for i < k and i - k + 1 for i >= k, and the ASR self-mask has side i + 1;
\* with wait_k_st = k > 0 the same holds with the streams swapped.
C9_WaitKMaskLen ==
    (pc = "expand" /\ idx > 1) =>
        /\ wait_k_asr > 0 =>
              /\ ys_mask = (IF i < wait_k_asr THEN 1 ELSE i - wait_k_asr + 1)
              /\ ys_mask_asr = i + 1
        /\ wait_k_st > 0 =>
              /\ ys_mask_asr = (IF i < wait_k_st THEN 1 ELSE i - wait_k_st + 1)
              /\ ys_mask = i + 1

\* lag 2 at step 2: the ST mask still has side 1, the ASR mask side 3
C9_Witness ==
    /\ pc = "expand"
    /\ idx > 1
    /\ wait_k_asr = 2
    /\ i = 2
    /\ ys_mask = 1
    /\ ys_mask_asr = 3

\* C5: a decode call with beam_size < 1 or n_best < 1 fails before the first
\* decoding step is executed and is never re-decoded.
BadWidth == caller.trans_args.beam_size < 1 \/ caller.trans_args.nbest < 1
C5_FailFast ==
    (pc \notin {"new", "built"} /\ BadWidth) =>
        /\ ys_mask = 0
        /\ depth = 0
        /\ pc # "returned"

\* C8: with beam_size 1, no lag, no diversity and penalty 0, a step with
\* both distributions present extends the single hypothesis by each
\* stream's own best token, and a returned score is the sum of the two
\* streams' selected log-probabilities along the path.
GreedyCfg ==
    /\ trans_args.beam_size = 1
    /\ trans_args.penalty = 0
    /\ wait_k_asr = 0
    /\ wait_k_st = 0
    /\ ratio_diverse_st = 0
    /\ ratio_diverse_asr = 0
MaxOf(d) == CHOOSE v \in {d[t] : t \in Vocab} : \A t \in Vocab : d[t] <= v
C8_GreedyAdditive ==
    GreedyCfg =>
        /\ (/\ pc = "expand"
            /\ idx = 2
            /\ local_att_scores # NoneVal
            /\ local_att_scores_asr # NoneVal) =>
              /\ Len(hyps_best_kept) = 1
              /\ LET p == hyps[1]
                     nh == hyps_best_kept[1]
                     t == Last(YSeq(nh))
                     ta == Last(YSeqAsr(nh))
                 IN /\ YSeq(nh) = Append(YSeq(p), t)
                    /\ YSeqAsr(nh) = Append(YSeqAsr(p), ta)
                    /\ local_att_scores[t] = MaxOf(local_att_scores)
                    /\ local_att_scores_asr[ta] = MaxOf(local_att_scores_asr)
        /\ pc = "returned" =>
              \A k \in 1 .. Len(nbest_hyps) :
                  nbest_hyps[k].score = nbest_hyps[k].lp_st + nbest_hyps[k].lp_asr

\* a greedy decode returned after three steps with unequal stream sums
C8_Witness ==
    /\ GreedyCfg
    /\ pc = "returned"
    /\ nbest_hyps # << >>
    /\ Len(YSeq(nbest_hyps[1])) >= 4
    /\ nbest_hyps[1].lp_st # nbest_hyps[1].lp_asr

\* C4 as stated: exactly one fallback re-decode per top-level call (read
\* for a valid configuration with equal maximum lengths, where every
\* re-decode comes from the minimum-length filter alone).
ValidCfg ==
    /\ caller.trans_args.beam_size >= 1
    /\ caller.trans_args.nbest >= 1
    /\ LagsOK
C4_SingleRetry == (ValidCfg /\ maxlen = maxlen_asr) => depth <= 1

\* C4 as amended: every attempt that ends with an empty Ended set is followed
\* by a re-decode whose two minimum-length ratios are 0.1 lower (up to the
\* rounding of one floating-point subtraction), floored at 0, than those of
\* the attempt that just ended; the re-decodes chain until the interpreter
\* refuses a deeper call.
Lowered(old, new) ==
    IF FLess(old, FloatOfTenths(1)) THEN new = FloatZero
    ELSE LET e == FMinus(old, FloatOfTenths(1))
         IN /\ new.hi - e.hi \in {0 - 1, 0, 1}
            /\ (new.hi - e.hi) * Limb + (new.lo - e.lo) \in (0 - 4) .. 4
C4_RetryRelaxes ==
    [][(pc = "rank" /\ ended_hyps = << >>) =>
          \/ /\ pc' = "expand"
             /\ i' = 0
             /\ ended_hyps' = << >>
             /\ Lowered(trans_args.minlenratio, trans_args'.minlenratio)
             /\ Lowered(trans_args.minlenratio_asr, trans_args'.minlenratio_asr)
          \/ /\ pc' = "error"
             /\ err' = "RecursionError"
             /\ depth = MaxDepth]_vars

\* the second re-decode of a call made with 0.5: it runs with the double
\* just above 0.3
C4_Witness ==
    /\ pc = "expand"
    /\ depth = 2
    /\ caller.trans_args.minlenratio = FloatOfTenths(5)
    /\ FLess(FloatOfTenths(3), trans_args.minlenratio)
    /\ FLess(trans_args.minlenratio, FloatOfTenths(4))

\* C3: every decode call with a valid configuration eventually returns,
\* whatever the step-decoder answers: the loop of an attempt is bounded and
\* the chain of re-decodes is finite.
C3_Returns == (ValidCfg /\ cross_kwargs) => <>(pc = "returned")

\* valid configurations with equal and unequal maximum lengths; the program
\* is a single thread that keeps running, and the interpreter's recursion
\* limit cuts a chain of re-decodes that would not end by itself
LiveConfigs ==
    {[Base EXCEPT !.maxlenratio = mx, !.maxlenratio_asr = mxa, !.minlenratio = mn] :
        mx \in {0, 5}, mxa \in {0, 5}, mn \in {0, 10}}
LiveInit ==
    /\ record = FALSE
    /\ span = NoSpan
    /\ NoLoad
    /\ cross_kwargs \in BOOLEAN
    /\ \E c \in LiveConfigs : InitOf(c)
FairSpec == LiveInit /\ [][Next]_vars /\ WF_vars(Next) /\ SF_vars(RecursionLimit)

\* ---------------------------------------------- two calls, one decoder
\* a deterministic step-decoder; calls whose first attempt can come back
\* empty and that ask for diversity
DetConfigs ==
    {[Base EXCEPT !.hlen = 2, !.wait_k_asr = ka, !.wait_k_st = 1 - ka, !.beam_size = 2,
                  !.nbest = 2, !.maxlenratio = mx, !.maxlenratio_asr = mx,
                  !.minlenratio = 10, !.minlenratio_asr = 10,
                  !.ratio_diverse_st = r, !.ratio_diverse_asr = 5 - r] :
        ka \in {0, 1}, mx \in {0, 10}, r \in {0, 5}}
    \cup {[Base EXCEPT !.hlen = 2, !.beam_size = 2, !.nbest = 2, !.topk_tie = t] :
            t \in {"lo", "hi"}}
DetInit ==
    /\ record = TRUE
    /\ span = NoSpan
    /\ NoLoad
    /\ cross_kwargs \in BOOLEAN
    /\ \E c \in DetConfigs : InitOf(c)
NextDet == Next \/ SecondCall
SpecDet == DetInit /\ [][NextDet]_vars

\* C7: two decode calls on identical features, configuration and vocabulary
\* with the same deterministic step-decoder return identical ranked lists:
\* the same scores and the same token sequences of both streams, in order.
C7_Deterministic ==
    (pc = "returned" /\ ncall = 2) => Result = first_result

\* a second call that returned after a fallback re-decode
C7_Witness ==
    /\ pc = "returned"
    /\ ncall = 2
    /\ depth >= 1
    /\ caller.ratio_diverse_st > 0
    /\ Len(Result) >= 1

\* ------------------------------------------------- the retained span
\* line 589 evaluated for one beam width and two diversity ratios
ComputeSpan ==
    /\ ~span.done
    /\ span' = [span EXCEPT !.ct1 = SpanOf(span.r1, span.beam),
                            !.ct2 = SpanOf(span.r2, span.beam),
                            !.done = TRUE]
    /\ UNCHANGED << wait_k_asr, wait_k_st, hlen, y, y_asr, topk_tie, cross_kwargs, record,
                    caller, pc, err, runVars, loadVars >>

\* ratios strictly inside (0, 1), in tenths
OpenRatios == 1 .. 9
SpanInit ==
    /\ record = FALSE
    /\ cross_kwargs = FALSE
    /\ InitOf(Base)
    /\ NoLoad
    /\ span \in [beam : 1 .. MaxSpanBeam, r1 : OpenRatios, r2 : OpenRatios,
                 ct1 : {0}, ct2 : {0}, done : {FALSE}]
NextSpan == ComputeSpan
SpecSpan == SpanInit /\ [][NextSpan]_vars

\* ------------------------------------------------- pre-initialisation
\* the new model: a single-decoder model, a dual-decoder model, or a model
\* with the decoder a language model is loaded into
MainModels ==
    [{EncKey, DecKey} -> Shapes]
    \cup {[k \in {EncKey, DualKey, DualAsrKey} |-> IF k = EncKey THEN 1 ELSE f[k]] :
             f \in [{DualKey, DualAsrKey} -> Shapes]}
    \cup {[k \in {EncKey, AsrEmbedKey, AsrRnnKey} |-> IF k = EncKey THEN 1 ELSE f[k]] :
             f \in [{AsrEmbedKey, AsrRnnKey} -> Shapes]}
\* a (model_path, modules) pair: no path, a path that is no file, or a file
\* with its state dict; a file whose path contains 'rnnlm' is a language model
FileJobs(keys, names, lm) ==
    {[path |-> "file", state |-> st, is_lm |-> lm, modules |-> ms] :
        st \in [keys -> Shapes], ms \in SUBSET names}
Jobs ==
    {[path |-> p, state |-> NoDict, is_lm |-> FALSE, modules |-> {}] : p \in {"None", "missing"}}
    \cup FileJobs({EncKey, DecKey}, {"encoder.embed", "decoder.embed"}, FALSE)
    \cup FileJobs({DecKey, DecAsrKey}, {"dual_decoder.embed", "dual_decoder.embed_asr"}, FALSE)
    \cup FileJobs({LmEmbedKey, LmRnnKey}, {"predictor.embed.", "predictor.rnn."}, TRUE)
LoadInit ==
    /\ record = FALSE
    /\ span = NoSpan
    /\ cross_kwargs = FALSE
    /\ InitOf(Base)
    /\ main_model \in MainModels
    /\ main_state_dict = [k \in DOMAIN main_model |-> [shape |-> main_model[k], src |-> "init"]]
    /\ jobs \in [1 .. 2 -> Jobs]
    /\ it = 1
    /\ modules = {}
    /\ dual_modules = NoModules
    /\ partial_state_dict = NoDict
    /\ lpc = "loop"
    /\ lerr = ""
NextLoad == LoadModules \/ LoadStateDict
SpecLoad == LoadInit /\ [][NextLoad]_vars

\* C10 as stated: for a fixed beam_size any increase of ratio_diverse_st
\* within (0,1) gives a strictly smaller retained column span ct.
C10_StrictlyShrinks ==
    (span.done /\ span.r1 < span.r2) => span.ct2 < span.ct1

\* C10: for a fixed beam_size an increase of ratio_diverse_st within (0,1)
\* never gives a larger retained column span ct; the span stays within
\* 0 .. beam_size and need not get smaller.
C10_NeverGrows ==
    span.done =>
        /\ span.ct1 \in 0 .. span.beam
        /\ span.ct2 \in 0 .. span.beam
        /\ span.r1 < span.r2 => span.ct2 <= span.ct1

\* two different ratios whose spans were computed and differ
C10_Witness ==
    /\ span.done
    /\ span.r1 < span.r2
    /\ span.ct2 < span.ct1
    /\ span.beam = MaxSpanBeam

\* ------------------------------------------------- joint selection
\* the state right after the first hypothesis of a step was expanded with
\* both distributions present and the selection succeeded
JointExpanded ==
    /\ pc = "expand"
    /\ idx = 2
    /\ local_att_scores \in Dists
    /\ local_att_scores_asr \in Dists
    /\ trans_args.beam_size >= 1
\* the pairs (ST candidate a, ASR candidate b) of the matrix the selection
\* runs over, and the value of a pair
PairRegion ==
    LET beam == trans_args.beam_size
        ixk == TopKTok(local_att_scores, beam)
        iyk == TopKTok(local_att_scores_asr, beam)
    IN {<< ixk[a], iyk[b] >> : a \in 1 .. Restriction(beam).nr,
                               b \in 1 .. Restriction(beam).nc}
PairValue(pr) == local_att_scores[pr[1]] + local_att_scores_asr[pr[2]]
PairOf(h) == << Last(h.yseq), Last(h.yseq_asr) >>

\* C11: with both distributions present the beam_size selected entries are
\* the beam_size largest values of S[a,b] = topk_st_score[a] +
\* topk_asr_score[b] over the pairs of the (in the diversity branches:
\* restricted) matrix, best first, and each selected value carries exactly
\* the token pair (ST candidate a, ASR candidate b) of its entry.
C11_JointTopK ==
    JointExpanded =>
        LET K == hyps_best_kept
            p == hyps[1]
            chosen == {PairOf(K[k]) : k \in 1 .. Len(K)}
        IN  /\ Len(K) = trans_args.beam_size
            /\ Cardinality(chosen) = Len(K)
            /\ chosen \subseteq PairRegion
            /\ \A k \in 1 .. Len(K) :
                /\ K[k].yseq = Append(YSeq(p), PairOf(K[k])[1])
                /\ K[k].yseq_asr = Append(YSeqAsr(p), PairOf(K[k])[2])
                /\ K[k].score = p.score + PairValue(PairOf(K[k]))
            /\ \A k \in 1 .. (Len(K) - 1) : K[k].score >= K[k + 1].score
            /\ \A pr \in PairRegion \ chosen :
                  \A k \in 1 .. Len(K) : PairValue(pr) <= PairValue(PairOf(K[k]))

\* a restricted matrix with two pairs of different value, both selected
C11_Witness ==
    /\ JointExpanded
    /\ ratio_diverse_st > 0
    /\ ratio_diverse_asr = 0
    /\ Len(hyps_best_kept) = 2
    /\ hyps_best_kept[1].score > hyps_best_kept[2].score

\* an unrestricted matrix where a pair of the matrix is left out
C11_WitnessFull ==
    /\ JointExpanded
    /\ ratio_diverse_st = 0
    /\ ratio_diverse_asr = 0
    /\ Len(hyps_best_kept) = 2
    /\ \E pr \in PairRegion : pr \notin {PairOf(hyps_best_kept[k]) : k \in 1 .. 2}

\* ------------------------------------------------- streams after eos
\* an expansion step of hypothesis hyps[idx], and the hypotheses it added
\* to the pruned beam
ExpandStep == pc = "expand" /\ idx <= Len(hyps) /\ pc' = "expand" /\ idx' = idx + 1
Children ==
    {hyps_best_kept'[k] : k \in 1 .. Len(hyps_best_kept')}
        \ {hyps_best_kept[k] : k \in 1 .. Len(hyps_best_kept)}
\* the stream has emitted eos and is past its lag window
EndedSt(h) == Len(YSeq(h)) >= 2 /\ Last(YSeq(h)) = eos /\ i >= wait_k_asr
EndedAsr(h) == Len(YSeqAsr(h)) >= 2 /\ Last(YSeqAsr(h)) = eos /\ i >= wait_k_st

\* C12: once a stream's last token is the eos it emitted (and the stream is
\* past its wait-k lag window), no later step appends a token to it: every
\* descendant hypothesis carries the stream unchanged.
C12_FrozenAfterEos ==
    [][ExpandStep =>
          \A c \in Children :
              /\ EndedSt(hyps[idx]) => Deref(c, ylist) = YSeq(hyps[idx])
              /\ EndedAsr(hyps[idx]) => DerefAsr(c, ylist_asr) = YSeqAsr(hyps[idx])]_vars

\* ------------------------------------------------- the partition
\* a step that partitions the pruned beam and does not leave the loop
\* through the end-detection break
PartitionStep ==
    /\ pc = "expand"
    /\ idx > Len(hyps)
    /\ hyps_best_kept # << >>
    /\ pc' \in {"expand", "rank"}
    /\ ~ended_early'
\* a stream of a pruned hypothesis after the forced-eos append
Forced(seq, last_step) == IF last_step /\ Last(seq) # eos THEN Append(seq, eos) ELSE seq
ForcedSt(h) == Forced(YSeq(h), i = maxlen - 1)
ForcedAsr(h) == Forced(YSeqAsr(h), i = maxlen_asr - 1)
\* where hypothesis h of the pruned beam is after the step
InEndedAfter(h) ==
    \E k \in (Len(ended_hyps) + 1) .. Len(ended_hyps') :
        /\ Deref(ended_hyps'[k], ylist') = ForcedSt(h)
        /\ DerefAsr(ended_hyps'[k], ylist_asr') = ForcedAsr(h)
        /\ ended_hyps'[k].score = h.score + (i + 1) * trans_args.penalty
InBeamAfter(h) ==
    \E k \in 1 .. Len(hyps') :
        /\ Deref(hyps'[k], ylist') = ForcedSt(h)
        /\ DerefAsr(hyps'[k], ylist_asr') = ForcedAsr(h)
        /\ hyps'[k].score = h.score
BothEnded(h) == Last(ForcedSt(h)) = eos /\ Last(ForcedAsr(h)) = eos
BothLong(h) == Len(ForcedSt(h)) > minlen /\ Len(ForcedAsr(h)) > minlen_asr

\* C13 as stated: the partition loses no hypothesis; every hypothesis of the
\* pruned beam is afterwards in the Ended set or in the beam that is carried
\* on.
C13_NoLoss ==
    [][PartitionStep =>
          \A k \in 1 .. Len(hyps_best_kept) :
              InEndedAfter(hyps_best_kept[k]) \/ InBeamAfter(hyps_best_kept[k])]_vars

\* C13: every hypothesis of the pruned beam goes exactly one way: into the
\* Ended set when both streams ended and both are longer than their minimum
\* length, into the carried beam when a stream is still open, and it is
\* discarded when both streams ended but one is not longer than its minimum.
C13_PartitionOrDrop ==
    [][PartitionStep =>
          /\ \A k \in 1 .. Len(hyps_best_kept) :
                LET h == hyps_best_kept[k]
                IN  /\ InEndedAfter(h) <=> (BothEnded(h) /\ BothLong(h))
                    /\ InBeamAfter(h) <=> ~BothEnded(h)
          /\ Len(hyps_best_kept) =
                (Len(ended_hyps') - Len(ended_hyps)) + Len(hyps')
                + Cardinality({k \in 1 .. Len(hyps_best_kept) :
                                  BothEnded(hyps_best_kept[k])
                                  /\ ~BothLong(hyps_best_kept[k])})]_vars

\* after the last partition of an attempt: one hypothesis of the pruned
\* beam went to the Ended set and another was discarded as too short
C13_Witness ==
    /\ pc = "rank"
    /\ ~ended_early
    /\ ended_hyps # << >>
    /\ \E k \in 1 .. Len(hyps_best_kept) :
          /\ BothEos(hyps_best_kept[k], ylist, ylist_asr)
          /\ ~LongEnough(hyps_best_kept[k], ylist, ylist_asr)

\* ------------------------------------------------- additive scores
PathSum(h) == h.lp_st + h.lp_asr
\* every hypothesis of the beam and of the pruned beam under construction
\* scores its path; every Ended hypothesis scores its path plus one bonus
ScoresAdditive ==
    /\ pc = "expand" =>
          /\ \A k \in 1 .. Len(hyps) : hyps[k].score = PathSum(hyps[k])
          /\ \A k \in 1 .. Len(hyps_best_kept) :
                hyps_best_kept[k].score = PathSum(hyps_best_kept[k])
    /\ Running =>
          \A k \in 1 .. Len(ended_hyps) :
              \E s \in 0 .. (NumSteps - 1) :
                  ended_hyps[k].score = PathSum(ended_hyps[k]) + (s + 1) * trans_args.penalty

\* C14: the score of a beam hypothesis is the sum of the selected
\* log-probabilities along its path (both streams' when both distributions
\* were present, the present stream's otherwise), and a hypothesis that
\* enters the Ended set at step i has that sum plus exactly one
\* (i + 1) * penalty.
C14_ScoreAdditive ==
    [][/\ ScoresAdditive'
       /\ (pc = "expand" /\ pc' \in {"expand", "rank"}) =>
             \A k \in (Len(ended_hyps) + 1) .. Len(ended_hyps') :
                 ended_hyps'[k].score =
                     PathSum(ended_hyps'[k]) + (i + 1) * trans_args.penalty]_vars

\* two hypotheses that ended at different steps, with their bonuses
C14_Witness ==
    /\ pc = "rank"
    /\ trans_args.penalty > 0
    /\ Len(ended_hyps) >= 2
    /\ ended_hyps[1].score = PathSum(ended_hyps[1]) + trans_args.penalty
    /\ ended_hyps[2].score = PathSum(ended_hyps[2]) + 2 * trans_args.penalty
    /\ ended_hyps[2].lp_st # ended_hyps[2].lp_asr

\* ------------------------------------------------- the Ended set is frozen
\* C15: no hypothesis changes after it was pushed into the Ended set: within
\* an attempt its score and both token sequences, as read through the list
\* objects it refers to, are the same after every later step, the forced-eos
\* append on shared lists included.
C15_EndedFrozen ==
    [][(Running /\ pc' \in {"expand", "rank", "returned"}
          /\ depth' = depth /\ ncall' = ncall /\ pc # "rank") =>
          /\ Len(ended_hyps') >= Len(ended_hyps)
          /\ \A k \in 1 .. Len(ended_hyps) :
                /\ ended_hyps'[k].score = ended_hyps[k].score
                /\ Deref(ended_hyps'[k], ylist') = Deref(ended_hyps[k], ylist)
                /\ DerefAsr(ended_hyps'[k], ylist_asr') =
                      DerefAsr(ended_hyps[k], ylist_asr)]_vars

\* an Ended hypothesis that refers to the shared initial ST list, while the
\* beam still holds a hypothesis that refers to the same list, in the step
\* of the forced-eos append
C15_Witness ==
    /\ pc = "expand"
    /\ i = maxlen - 1
    /\ i >= 1
    /\ \E k \in 1 .. Len(ended_hyps) : ended_hyps[k].sh
    /\ \E k \in 1 .. Len(hyps_best_kept) : hyps_best_kept[k].sh

\* ------------------------------------------------- the early break
\* C16: the loop is left through the end-detection break only when both
\* max-length ratios, maxlenratio and maxlenratio_asr, are 0.
C16_BreakNeedsBothZero ==
    ended_early => (trans_args.maxlenratio = 0 /\ trans_args.maxlenratio_asr = 0)

\* ------------------------------------------------- one sort or many
\* the candidates generated from parent h in the running step, in rank
\* order, with the recorded answer of the step-decoder
CandsOf(h) ==
    LET ans == memo.dec[QueryKey(h, ys_mask, ys_mask_asr)]
        las == SuppressSt(h, ans.st)
        las_asr == SuppressAsr(h, ans.asr)
        sel == Select(las, las_asr, trans_args.beam_size)
    IN [j \in 1 .. trans_args.beam_size |-> NewHyp(h, sel.cands[j], las, las_asr)]
\* all candidates of the first n parents, in generation order
RECURSIVE AllCands(_)
AllCands(n) == IF n = 0 THEN << >> ELSE AllCands(n - 1) \o CandsOf(hyps[n])
\* one stable sort by descending score: the place of element k
StableRank(s, k) ==
    1 + Cardinality({j \in 1 .. Len(s) : s[j].score > s[k].score})
      + Cardinality({j \in 1 .. (k - 1) : s[j].score = s[k].score})
StableSorted(s) ==
    [p \in 1 .. Len(s) |-> s[CHOOSE k \in 1 .. Len(s) : StableRank(s, k) = p]]

\* C17: the pruned beam built by sorting and cutting to beam_size after
\* every single insertion equals the first beam_size elements of one stable
\* descending sort of all candidates in generation order (parent order, then
\* candidate rank): equal scores are won by the earlier candidate.
C17_OneStableSort ==
    (pc = "expand" /\ idx > 1 /\ trans_args.beam_size >= 1) =>
        LET all == StableSorted(AllCands(idx - 1))
        IN hyps_best_kept = SubSeq(all, 1, Min2(trans_args.beam_size, Len(all)))

\* two parents expanded, and a candidate as good as the last kept one was
\* cut
C17_Witness ==
    /\ pc = "expand"
    /\ idx = 3
    /\ Len(hyps_best_kept) = 2
    /\ \E k \in 1 .. Len(AllCands(2)) :
          /\ AllCands(2)[k].score = hyps_best_kept[2].score
          /\ AllCands(2)[k] # hyps_best_kept[1]
          /\ AllCands(2)[k] # hyps_best_kept[2]

\* ------------------------------------------------- the beam
SortedDesc(hs) == \A k \in 1 .. (Len(hs) - 1) : hs[k].score >= hs[k + 1].score

\* C18: at the start of every step, and while the step expands it, the beam
\* holds at most beam_size hypotheses in non-increasing score order (for
\* beam_size >= 1); so does the pruned beam under construction.
C18_BeamBounded ==
    (pc = "expand" /\ trans_args.beam_size >= 1) =>
        /\ Len(hyps) <= trans_args.beam_size
        /\ SortedDesc(hyps)
        /\ Len(hyps_best_kept) <= trans_args.beam_size
        /\ SortedDesc(hyps_best_kept)

\* a full beam of two hypotheses of different score at a later step, grown
\* from different candidates of the first step
C18_Witness ==
    /\ pc = "expand"
    /\ i >= 1
    /\ trans_args.beam_size = 2
    /\ Len(hyps) = 2
    /\ hyps[1].score > hyps[2].score
    /\ YSeq(hyps[1])[2] # YSeq(hyps[2])[2]


\* ---------------------------------------------------------------- C19
\* an expansion that had both distributions in hand under the diversity
\* setting of the current attempt
BothDistributions ==
    /\ pc \in {"expand", "error"}
    /\ local_att_scores \in Dists
    /\ local_att_scores_asr \in Dists
    /\ trans_args.beam_size \in 1 .. Odim
SelectionFailed == pc = "error" /\ err \in {"ZeroDivisionError", "RuntimeError"}

\* C19: when both diversity ratios are positive the restricted sub-matrix
\* S[:cr, :ct] has at least beam_size entries, so the top-beam_size selection
\* goes through and yields beam_size pairs.
C19_BothDiverseSelects ==
    (BothDistributions /\ ratio_diverse_st > 0 /\ ratio_diverse_asr > 0) =>
        /\ ~SelectionFailed
        /\ Restriction(trans_args.beam_size).err = ""
        /\ Restriction(trans_args.beam_size).nr * Restriction(trans_args.beam_size).nc
               >= trans_args.beam_size

\* ---------------------------------------------------------------- C20
\* C20: when exactly one diversity ratio is positive the retained span is at
\* least 1, so the restricted sub-matrix has at least beam_size entries and
\* the selection produces beam_size pairs without error.
C20_OneDiverseSelects ==
    (BothDistributions /\ (ratio_diverse_st > 0) # (ratio_diverse_asr > 0)) =>
        /\ ~SelectionFailed
        /\ (ratio_diverse_st > 0 =>
                SpanOf(ratio_diverse_st, trans_args.beam_size) >= 1)
        /\ (ratio_diverse_asr > 0 =>
                SpanOf(ratio_diverse_asr, trans_args.beam_size) >= 1)


\* ---------------------------------------------------------------- C21
\* the tokens of either stream among the pairs selected for the one parent
StTokens == {Last(hyps_best_kept[k].yseq) : k \in 1 .. Len(hyps_best_kept)}
AsrTokens == {Last(hyps_best_kept[k].yseq_asr) : k \in 1 .. Len(hyps_best_kept)}

\* C21: with only ST diversity requested and a span ct >= 1 the beam_size
\* pairs selected for one parent hold at least ceil(beam_size / ct) distinct
\* ST tokens; with only ASR diversity requested and cr >= 1 they hold at
\* least ceil(beam_size / cr) distinct ASR tokens.
C21_DistinctTokens ==
    JointExpanded =>
        LET beam == trans_args.beam_size
            ct == SpanOf(ratio_diverse_st, beam)
            cr == SpanOf(ratio_diverse_asr, beam)
        IN  /\ (ratio_diverse_st > 0 /\ ratio_diverse_asr <= 0 /\ ct >= 1) =>
                  Cardinality(StTokens) * ct >= beam
            /\ (ratio_diverse_asr > 0 /\ ratio_diverse_st <= 0 /\ cr >= 1) =>
                  Cardinality(AsrTokens) * cr >= beam

\* ST diversity with span 1 and beam 2 on a flat ASR distribution: the
\* second ST token is selected although the best ST token with the other ASR
\* token scores as much as the best pair
C21_Witness ==
    /\ JointExpanded
    /\ trans_args.beam_size = 2
    /\ ratio_diverse_st > 0
    /\ ratio_diverse_asr = 0
    /\ SpanOf(ratio_diverse_st, 2) = 1
    /\ local_att_scores_asr[0] = local_att_scores_asr[1]
    /\ Cardinality(StTokens) = 2
    /\ hyps_best_kept[1].score > hyps_best_kept[2].score


\* ---------------------------------------------------------------- C22
\* what an expansion step does to the streams of the parent hyps[idx]
StCarried(c) == c.sh = hyps[idx].sh /\ Deref(c, ylist) = YSeq(hyps[idx])
AsrCarried(c) == c.sh_asr = hyps[idx].sh_asr /\ DerefAsr(c, ylist_asr) = YSeqAsr(hyps[idx])
StGrowsByOne(c) ==
    /\ Len(Deref(c, ylist)) = Len(YSeq(hyps[idx])) + 1
    /\ SubSeq(Deref(c, ylist), 1, Len(YSeq(hyps[idx]))) = YSeq(hyps[idx])
AsrGrowsByOne(c) ==
    /\ Len(DerefAsr(c, ylist_asr)) = Len(YSeqAsr(hyps[idx])) + 1
    /\ SubSeq(DerefAsr(c, ylist_asr), 1, Len(YSeqAsr(hyps[idx]))) = YSeqAsr(hyps[idx])
CarryOrEos(c) ==
    /\ i < wait_k_asr => (StCarried(c) /\ AsrGrowsByOne(c))
    /\ i < wait_k_st => (AsrCarried(c) /\ StGrowsByOne(c))
    /\ (local_att_scores' = NoneVal /\ i >= wait_k_asr) =>
           Deref(c, ylist) = Append(YSeq(hyps[idx]), eos)
    /\ (local_att_scores_asr' = NoneVal /\ i >= wait_k_st) =>
           DerefAsr(c, ylist_asr) = Append(YSeqAsr(hyps[idx]), eos)

\* C22: in every step i < wait_k_asr the ST stream of every new hypothesis
\* is its parent's (no token appended, length stays 1) while the ASR stream
\* grows by exactly one token; a stream whose distribution is suppressed at
\* or past its lag receives exactly one eos.  Symmetric for wait_k_st.
C22_CarryLengthOne ==
    [][ExpandStep =>
          \A c \in Children :
              /\ CarryOrEos(c)
              /\ i < wait_k_asr => Len(Deref(c, ylist)) = 1
              /\ i < wait_k_st => Len(DerefAsr(c, ylist_asr)) = 1]_vars

\* C22 (amended): the same, with the length of the carried stream as the
\* program leaves it: 1 until the forced-eos append of step max_len - 1 has
\* changed the initial list (a start marker that is not eos, and a maximum
\* length that ends inside the lag window), 2 from then on.
C22_CarryOrEos ==
    [][ExpandStep =>
          \A c \in Children :
              /\ CarryOrEos(c)
              /\ i < wait_k_asr =>
                    Len(Deref(c, ylist)) = (IF y # eos /\ i >= maxlen THEN 2 ELSE 1)
              /\ i < wait_k_st =>
                    Len(DerefAsr(c, ylist_asr)) =
                        (IF y_asr # eos /\ i >= maxlen_asr THEN 2 ELSE 1)]_vars

\* a carried ST stream of length 2: the forced eos of step max_len_st - 1
\* went into the initial list while the stream was still waiting
C22_Witness ==
    /\ pc = "expand"
    /\ idx = 2
    /\ i = 1
    /\ i < wait_k_asr
    /\ hyps_best_kept # << >>
    /\ hyps_best_kept[1].sh
    /\ ylist = << 0, eos >>
    /\ Len(YSeqAsr(hyps_best_kept[1])) = 3
\* a suppressed ST stream that received eos past step 2
C22_WitnessEos ==
    /\ pc = "expand"
    /\ idx = 2
    /\ i = 3
    /\ local_att_scores = NoneVal
    /\ local_att_scores_asr \in Dists
    /\ wait_k_asr = 0
    /\ hyps_best_kept # << >>
    /\ YSeq(hyps_best_kept[1]) = Append(YSeq(hyps[1]), eos)


\* ---------------------------------------------------------------- C23
\* the step right after the lag window, the first hypothesis expanded
LagJustOver(wk) == pc = "expand" /\ idx > 1 /\ wk > 0 /\ i = wk /\ y = eos /\ y_asr = eos

\* C23: with the start markers equal to eos and a lag k = wait_k_asr > 0, at
\* step i = k the ST distribution is present and the ST stream receives a
\* token selected by the decoder; symmetrically for wait_k_st and the ASR
\* stream.
C23_EmitsAfterLag ==
    /\ LagJustOver(wait_k_asr) => local_att_scores \in Dists
    /\ LagJustOver(wait_k_st) => local_att_scores_asr \in Dists


\* ---------------------------------------------------------------- C24
\* C24: the lag given to the two cross-mask builders in a decoding step is
\* the one of the training forward pass: +k and -k with wait_k_asr = k > 0,
\* -k and +k with wait_k_st = k > 0, 0 and 0 without a lag.
C24_CrossLagAsInTraining ==
    (pc = "expand" /\ idx > 1 /\ queried) =>
        /\ cross_mask = << TrainCrossLags.st >>
        /\ cross_mask_asr = << TrainCrossLags.asr >>


\* ---------------------------------------------------------------- C25
\* C25: whenever the step-decoder is queried for a hypothesis, the side of
\* each stream's self-mask equals the number of tokens of that stream, for
\* every lag and every pair of maximum lengths.
C25_MaskMatchesStream ==
    (pc = "expand" /\ idx > 1 /\ queried) =>
        /\ ys_mask = Len(YSeq(hyps[idx - 1]))
        /\ ys_mask_asr = Len(YSeqAsr(hyps[idx - 1]))


\* ---------------------------------------------------------------- C26
\* every hypothesis of the beam and of the pruned beam under construction
BeamHyps ==
    {hyps[k] : k \in 1 .. Len(hyps)} \cup {hyps_best_kept[k] : k \in 1 .. Len(hyps_best_kept)}

\* C26: the maximum length is a hard bound per stream: in every step after
\* the forced-eos append of step max_len_st - 1 the ST stream of every
\* hypothesis ends with eos and gains no other token; symmetrically for the
\* ASR stream and max_len_asr.
C26_MaxLenHard ==
    pc = "expand" =>
        /\ i >= maxlen => \A h \in BeamHyps : Last(YSeq(h)) = eos
        /\ i >= maxlen_asr => \A h \in BeamHyps : Last(YSeqAsr(h)) = eos


\* ---------------------------------------------------------------- C27
\* C27: the branch for two absent distributions is never taken: for every
\* hypothesis expanded, the step-decoder was queried in that step and at
\* least one of the two distributions is present.
C27_SomeDistribution ==
    /\ ~(pc = "error" /\ err = "NotImplementedError")
    /\ (pc = "expand" /\ idx > 1) =>
           /\ queried
           /\ local_att_scores # NoneVal \/ local_att_scores_asr # NoneVal


\* ---------------------------------------------------------------- C28
\* C28: the fallback re-decode differs from the original call only in the
\* two minimum-length ratios: beam_size, penalty, n_best, both
\* maximum-length ratios and both diversity ratios are those of the caller.
C28_RetryKeepsTheRest ==
    (Running /\ depth >= 1) =>
        /\ trans_args.beam_size = caller.trans_args.beam_size
        /\ trans_args.penalty = caller.trans_args.penalty
        /\ trans_args.nbest = caller.trans_args.nbest
        /\ trans_args.maxlenratio = caller.trans_args.maxlenratio
        /\ trans_args.maxlenratio_asr = caller.trans_args.maxlenratio_asr
        /\ ratio_diverse_st = caller.ratio_diverse_st
        /\ ratio_diverse_asr = caller.ratio_diverse_asr


\* ---------------------------------------------------------------- C29
\* a pass of the loop over a pre-trained file that went through
FileStep ==
    /\ lpc = "loop"
    /\ it <= Len(jobs)
    /\ jobs[it].path = "file"
    /\ it' = it + 1
\* the verdict of transfer_verification in that pass
Verified ==
    /\ DOMAIN partial_state_dict' # {}
    /\ transfer_verification(main_state_dict, partial_state_dict', modules')

\* C29: a pre-trained parameter is written into the main state only if the
\* main model has that key with the same shape: after a pass every
\* overridden key has the shape the main model gave it, and when
\* transfer_verification fails the main state is unchanged.
C29_OnlySameShape ==
    [][(FileStep /\ ~jobs[it].is_lm) =>
          /\ \A k \in DOMAIN main_state_dict' :
                main_state_dict'[k].src = "pre" =>
                    (k \in DOMAIN main_model /\ main_state_dict'[k].shape = main_model[k])
          /\ ~Verified => main_state_dict' = main_state_dict]_vars

\* ---------------------------------------------------------------- C30
\* C30: when the pre-trained file is a language model, the parameters
\* rewritten by get_partial_lm_state_dict are written into the main state
\* before it is loaded, as those of any other file are: whenever the
\* verification of the rewritten parameters against the main model passes.
C30_LmWritten ==
    [][(FileStep /\ jobs[it].is_lm
            /\ ~VerificationRaises(main_state_dict, partial_state_dict', modules')
            /\ Verified) =>
          \A k \in DOMAIN partial_state_dict' :
              /\ k \in DOMAIN main_state_dict'
              /\ main_state_dict'[k] = [shape |-> partial_state_dict'[k], src |-> "pre"]]_vars

====
